---- MODULE Spec2Model ----
(***************************************************************************)
(* A model of tokio-uring-reactor/src/reactor.rs: the CompletionState      *)
(* dispatch, the park loop of Inner (park_inner), the Handle operations    *)
(* async_read / async_write and the AsyncRead / AsyncWrite futures.        *)
(*                                                                         *)
(* The kernel ring (crate io_uring), the timer descriptor (crate timerfd), *)
(* the wake primitive (module unpark) and the Slot (module registration)   *)
(* are collaborators whose code is not in reactor.rs; they are modelled    *)
(* from their described interface.                                         *)
(***************************************************************************)
EXTENDS Integers, Sequences, FiniteSets, TLC

VARIABLES
    alive,          \* the Reactor (the only strong Rc of Inner) still exists
    panicked,       \* a panic!/expect/unreachable! was hit: the thread is gone
    cs,             \* CompletionState: requeue_timer, timer_pending, requeue_park, active_wait
    park_event,     \* unpark::Park: a signal is pending (its descriptor is readable)
    timerfd,        \* timerfd::TimerFd: "Disarmed", "Oneshot" (armed) or "Expired" (readable)
    sq,             \* io_uring submission queue: user_data of the requests not yet submitted
    inflight,       \* requests the kernel holds: user_data -> how many
    cq,             \* io_uring completion queue: sequence of [user_data, res]
    pc,             \* where the reactor thread is in park_inner
    wait,           \* park_inner's local `wait`
    timeout,        \* park_inner's argument `timeout` (None or Some(duration))
    turn,           \* what this park turn has done so far (observation of the calls it made)
    futures,        \* the AsyncRead / AsyncWrite values handed to the tasks
    slots,          \* the Registration (Slot) behind each operation
    calls,          \* per operation: the payload passed in, the values returned to the
                    \* task, how often it resolved, the result the kernel reported,
                    \* how many watch requests it submitted (AsyncPoll), in all
                    \* and since the last item it yielded
    woken           \* tasks whose waiter has been notified and that have not polled since

vars == <<alive, panicked, cs, park_event, timerfd, sq, inflight, cq, pc, wait,
          timeout, turn, futures, slots, calls, woken>>

(***************************************************************************)
(* Bounds of the model and constants of the program.                      *)
(***************************************************************************)
MaxOps == 2         \* operations issued over a run
MaxStreams == 1     \* AsyncPoll streams created over a run
MaxWatches == 3     \* watch requests one AsyncPoll stream submits over a run
LiveOps == 1        \* operations issued over a run of the liveness specification
SqEntries == 1      \* capacity of the submission queue in the model

TIMER == 1
PARK == 3

Ops == 1..MaxOps
\* what the task issuing operation i passes in: its own buffer and its own file
BufOf(i) == <<i, i + 1, i + 2>>
FileOf(i) == [fd |-> i + 2]
Durations == {0, 5}
Results == {-11, 0, 3}

None == <<>>
Some(x) == <<x>>
IsSome(o) == o # <<>>
Unwrap(o) == o[1]

(***************************************************************************)
(* Values: io::Error, the values a call returns, and the payload of an     *)
(* operation.                                                              *)
(***************************************************************************)
NoError == [kind |-> "none", code |-> 0, msg |-> ""]
\* io::Error::new(io::ErrorKind::Other, msg)
OtherError(msg) == [kind |-> "other", code |-> 0, msg |-> msg]
\* io::Error::from_raw_os_error(code): the OS error whose code is `code`, as given
FromRawOsError(code) == [kind |-> "os", code |-> code, msg |-> ""]
\* sq_full_map_err
SqFullMapErr == OtherError("submission queue full")
\* the error of Handle::inner_mut when the Weak cannot be upgraded
ReactorDead == OtherError("uring reactor dead")

Ret(kind, n, err, buf, file) ==
    [kind |-> kind, n |-> n, err |-> err, buf |-> buf, file |-> file]
NoRet == Ret("None", 0, NoError, None, None)
RetFuture == Ret("Future", 0, NoError, None, None)
RetNotReady == Ret("NotReady", 0, NoError, None, None)
RetPanic == Ret("Panic", 0, NoError, None, None)
\* Ok(Async::Ready((n, buf, file)))
RetReady(n, buf, file) == Ret("Ready", n, NoError, Some(buf), Some(file))
\* Err((e, buf, file))
RetErr3(e, buf, file) == Ret("Err", 0, e, Some(buf), Some(file))
\* Err(e): an io::Error alone
RetErr1(e) == Ret("Err", 0, e, None, None)

(***************************************************************************)
(* Registration (the Slot): payload, outcome, waiter.                      *)
(***************************************************************************)
FreeSlot ==
    [state |-> "free", outcome |-> None, data |-> None, waiter |-> FALSE,
     delivered |-> 0]
\* Registration::new(data): armed, no outcome
RegistrationNew(data) ==
    [state |-> "armed", outcome |-> None, data |-> Some(data), waiter |-> FALSE,
     delivered |-> 0]
\* RawRegistration::into_user_data: the Slot's address, aligned, so even and non-zero
IntoUserData(i) == 2 * i
\* RawRegistration::from_user_data: back to the Slot the tag came from
FromUserData(user_data) == user_data \div 2
\* Registration::abort: take the payload back; the tag never reached the kernel
RegistrationAbort(s) ==
    [slot |-> [s EXCEPT !.state = "aborted", !.data = None], data |-> s.data]
\* Registration::poll: NotReady registers the waiter; Ready hands out the outcome
\* and the payload, once; a poll after that has no payload to hand out
RegistrationPoll(s) ==
    IF ~IsSome(s.data)
    THEN [slot |-> s, kind |-> "Panic", result |-> 0, data |-> None]
    ELSE IF ~IsSome(s.outcome)
    THEN [slot |-> [s EXCEPT !.waiter = TRUE], kind |-> "NotReady",
          result |-> 0, data |-> None]
    ELSE [slot |-> [s EXCEPT !.state = "consumed", !.data = None, !.waiter = FALSE],
          kind |-> "Ready", result |-> Unwrap(s.outcome), data |-> s.data]

\* Registration::track: the polling task becomes the waiter of the Slot
RegistrationTrack(s) == [s EXCEPT !.waiter = TRUE]
\* Registration::poll_stream_and_reset: NotReady registers the waiter; Ready hands
\* out the outcome and puts the Slot back to "armed, no outcome" for the next cycle
RegistrationPollStreamAndReset(s) ==
    IF ~IsSome(s.outcome)
    THEN [slot |-> [s EXCEPT !.waiter = TRUE], kind |-> "NotReady", result |-> 0]
    ELSE [slot |-> [s EXCEPT !.state = "armed", !.outcome = None, !.waiter = FALSE],
          kind |-> "Ready", result |-> Unwrap(s.outcome)]

UserTags == {IntoUserData(i) : i \in Ops}
Tags == {TIMER, PARK} \cup UserTags

(***************************************************************************)
(* CompletionState::handle_completion and Inner::check_completions, on the *)
(* part of the state a completion can change:                              *)
(*   st = [cs, park_event, slots, woken, panicked]                         *)
(***************************************************************************)
\* RawRegistration::notify: store the outcome, resume the waiter if there is one;
\* `delivered` counts the calls made on this Slot
Notify(st, i, result) ==
    [st EXCEPT !.slots[i].outcome = Some(result),
               !.slots[i].delivered = @ + 1,
               !.slots[i].state = IF @ = "armed" THEN "completed" ELSE @,
               !.slots[i].waiter = FALSE,
               !.woken = IF st.slots[i].waiter THEN @ \cup {i} ELSE @]

\* a variant whose decode loses the tag: every even tag resolves the first Slot
HandleCompletion_FirstSlot(st, user_data, result) ==
    IF user_data = 0
    THEN st
    ELSE LET dec == [st EXCEPT !.cs.active_wait = @ - 1]
         IN  IF user_data % 2 = 0
             THEN Notify(dec, 1, result)
             ELSE CASE user_data = TIMER ->
                         [dec EXCEPT !.cs.requeue_timer = TRUE,
                                     !.cs.timer_pending = TRUE]
                    [] user_data = PARK ->
                         [dec EXCEPT !.park_event = FALSE,
                                     !.cs.requeue_park = TRUE]
                    [] OTHER -> [dec EXCEPT !.panicked = TRUE]

\* a variant that counts only the completions of user operations
HandleCompletion_UserOnly(st, user_data, result) ==
    IF user_data = 0
    THEN st
    ELSE IF user_data % 2 = 0
         THEN Notify([st EXCEPT !.cs.active_wait = @ - 1], FromUserData(user_data),
                     result)
         ELSE CASE user_data = TIMER ->
                     [st EXCEPT !.cs.requeue_timer = TRUE,
                                !.cs.timer_pending = TRUE]
                [] user_data = PARK ->
                     [st EXCEPT !.park_event = FALSE,
                                !.cs.requeue_park = TRUE]
                [] OTHER -> [st EXCEPT !.panicked = TRUE]

\* a variant that swallows an unknown odd tag
HandleCompletion_UnknownIgnored(st, user_data, result) ==
    IF user_data = 0
    THEN st
    ELSE LET dec == [st EXCEPT !.cs.active_wait = @ - 1]
         IN  IF user_data % 2 = 0
             THEN Notify(dec, FromUserData(user_data), result)
             ELSE CASE user_data = TIMER ->
                         [dec EXCEPT !.cs.requeue_timer = TRUE,
                                     !.cs.timer_pending = TRUE]
                    [] user_data = PARK ->
                         [dec EXCEPT !.park_event = FALSE,
                                     !.cs.requeue_park = TRUE]
                    [] OTHER -> dec

HandleCompletion(st, user_data, result) ==
    IF user_data = 0
    THEN st
    ELSE LET dec == [st EXCEPT !.cs.active_wait = @ - 1]
         IN  IF user_data % 2 = 0
             THEN Notify(dec, FromUserData(user_data), result)
             ELSE CASE user_data = TIMER ->
                         [dec EXCEPT !.cs.requeue_timer = TRUE,
                                     !.cs.timer_pending = TRUE]
                    [] user_data = PARK ->
                         [dec EXCEPT !.park_event = FALSE,
                                     !.cs.requeue_park = TRUE]
                    [] OTHER -> [dec EXCEPT !.panicked = TRUE]

RECURSIVE DrainCompletions(_, _)
DrainCompletions(st, q) ==
    IF q = <<>> \/ st.panicked
    THEN [st |-> st, cq |-> q]
    ELSE DrainCompletions(HandleCompletion(st, Head(q).user_data, Head(q).res), Tail(q))

\* returns the new state and `received_completion`
CheckCompletions(st, q) ==
    LET d == DrainCompletions(st, q)
    IN  [st |-> d.st, cq |-> d.cq, received_completion |-> q # <<>>]

(***************************************************************************)
(* The submission queue and the queue_* methods of Inner.                  *)
(***************************************************************************)
\* submission_queue().bulk().submit_with: one more request, or the queue is full
SubmitWith(q, user_data) ==
    IF Len(q) < SqEntries
    THEN [ok |-> TRUE, sq |-> Append(q, user_data)]
    ELSE [ok |-> FALSE, sq |-> q]

\* a variant that counts the request before it knows that it was queued
QueueRequest_CountsFailure(q, active_wait, user_data) ==
    LET s == SubmitWith(q, user_data)
    IN  IF s.ok
        THEN [ok |-> TRUE, sq |-> s.sq, active_wait |-> active_wait + 1]
        ELSE [ok |-> FALSE, sq |-> q, active_wait |-> active_wait + 1]

\* the shape shared by the queue_* methods: submit_with(..)?; active_wait += 1; Ok(())
QueueRequest(q, active_wait, user_data) ==
    LET s == SubmitWith(q, user_data)
    IN  IF s.ok
        THEN [ok |-> TRUE, sq |-> s.sq, active_wait |-> active_wait + 1]
        ELSE [ok |-> FALSE, sq |-> q, active_wait |-> active_wait]

QueueTimerPoll(q, active_wait) == QueueRequest(q, active_wait, TIMER)
QueueParkRead(q, active_wait) == QueueRequest(q, active_wait, PARK)
QueueAsyncRead(q, active_wait, i) == QueueRequest(q, active_wait, IntoUserData(i))
QueueAsyncWrite(q, active_wait, i) == QueueRequest(q, active_wait, IntoUserData(i))
QueueAsyncPoll(q, active_wait, i) == QueueRequest(q, active_wait, IntoUserData(i))

(***************************************************************************)
(* The initial state: Reactor::new, CompletionState::new.                  *)
(***************************************************************************)
CompletionStateNew ==
    [requeue_timer |-> TRUE, timer_pending |-> FALSE,
     requeue_park |-> TRUE, active_wait |-> 0]

BlankTurn ==
    [api |-> "none", duration |-> 0, drained |-> FALSE, saw_pending |-> FALSE,
     vetoed |-> FALSE, timer_set |-> "none", timer_queued |-> FALSE,
     park_queued |-> FALSE, queue_failed |-> FALSE, enter |-> "none",
     enters |-> 0, result |-> "none"]

NoFuture == [kind |-> "none", state |-> "None", e |-> NoError, buf |-> None, file |-> None]
NoCall == [buf |-> None, file |-> None, sync |-> NoRet, ret |-> NoRet, nres |-> 0,
           reported |-> None, nsub |-> 0, since |-> 0]

Init ==
    /\ alive = TRUE
    /\ panicked = FALSE
    /\ cs = CompletionStateNew
    /\ park_event = FALSE
    /\ timerfd = "Disarmed"
    /\ sq = <<>>
    /\ inflight = [t \in Tags |-> 0]
    /\ cq = <<>>
    /\ pc = "idle"
    /\ wait = FALSE
    /\ timeout = None
    /\ turn = BlankTurn
    /\ futures = [i \in Ops |-> NoFuture]
    /\ slots = [i \in Ops |-> FreeSlot]
    /\ calls = [i \in Ops |-> NoCall]
    /\ woken = {}

\* the part of the state handle_completion works on, and writing it back
DispatchState ==
    [cs |-> cs, park_event |-> park_event, slots |-> slots, woken |-> woken,
     panicked |-> panicked]
SetDispatchState(st) ==
    /\ cs' = st.cs
    /\ park_event' = st.park_event
    /\ slots' = st.slots
    /\ woken' = st.woken
    /\ panicked' = st.panicked

(***************************************************************************)
(* Inner::park, Inner::park_timeout and the steps of Inner::park_inner.    *)
(***************************************************************************)
\* park(): park_inner(true, None)
ParkArgs == [wait |-> TRUE, timeout |-> None]
\* a variant without the test for a zero duration
ParkTimeoutArgs_NoZeroTest(duration) ==
    [wait |-> TRUE, timeout |-> Some(duration)]

\* park_timeout(duration)
ParkTimeoutArgs(duration) ==
    IF duration = 0
    THEN [wait |-> FALSE, timeout |-> None]
    ELSE [wait |-> TRUE, timeout |-> Some(duration)]

\* a variant that keeps `wait` although completions were drained
WaitAfterCheck_Kept(w, received_completion) == w

\* if self.check_completions() { wait = false; }
WaitAfterCheck(w, received_completion) ==
    IF received_completion THEN FALSE ELSE w
\* a variant without the early check
WaitAfterPending_Kept(w, pending) == w

\* if self.completion_state.park.pending() { wait = false; }
WaitAfterPending(w, pending) ==
    IF pending THEN FALSE ELSE w
\* a variant that ignores the gate
WaitAfterGate_Kept(w, allow_wait) == w

\* if !park_enter.allow_wait { wait = false; }
WaitAfterGate(w, allow_wait) ==
    IF ~allow_wait THEN FALSE ELSE w
\* (min_complete, flags) of the enter call
EnterArgs(w) ==
    IF w THEN [min_complete |-> 1, flags |-> "GETEVENTS"]
         ELSE [min_complete |-> 0, flags |-> "default"]
\* unpark::Park::pending
ParkPending == park_event
\* unpark::Park::enter: the gate allows waiting unless a signal is pending
ParkEnterAllowWait == ~park_event

\* the call to park / park_timeout up to and including the first check_completions
ParkBegin(api, duration) ==
    /\ pc = "idle" /\ alive /\ ~panicked
    /\ LET args == IF api = "park" THEN ParkArgs ELSE ParkTimeoutArgs(duration)
           c == CheckCompletions(DispatchState, cq)
       IN  /\ SetDispatchState(c.st)
           /\ cq' = c.cq
           /\ wait' = WaitAfterCheck(args.wait, c.received_completion)
           /\ timeout' = args.timeout
           /\ turn' = [BlankTurn EXCEPT !.api = api,
                                        !.duration = IF api = "park" THEN 0 ELSE duration,
                                        !.drained = c.received_completion]
    /\ pc' = "pending"
    /\ UNCHANGED <<alive, timerfd, sq, inflight, futures, calls>>

\* the early check of the wake primitive
ParkPendingCheck ==
    /\ pc = "pending" /\ ~panicked
    /\ wait' = WaitAfterPending(wait, ParkPending)
    /\ turn' = [turn EXCEPT !.saw_pending = ParkPending]
    /\ pc' = "arm_timer"
    /\ UNCHANGED <<alive, panicked, cs, park_event, timerfd, sq, inflight, cq,
                   timeout, futures, slots, calls, woken>>

\* a variant that leaves requeue_timer set after queueing the TIMER watch
ArmTimer_KeepsFlag(c, q, tfd, w, to) ==
    IF ~w
    THEN [cs |-> c, sq |-> q, timerfd |-> tfd, wait |-> w,
          timer_set |-> "none", timer_queued |-> FALSE, queue_failed |-> FALSE]
    ELSE LET set == IF IsSome(to) THEN "Oneshot"
                    ELSE IF c.timer_pending THEN "Disarmed" ELSE "none"
             tfd1 == IF set = "none" THEN tfd ELSE set
             c1 == IF set = "none" THEN c ELSE [c EXCEPT !.timer_pending = FALSE]
             r == QueueTimerPoll(q, c1.active_wait)
         IN  IF ~c1.requeue_timer
             THEN [cs |-> c1, sq |-> q, timerfd |-> tfd1, wait |-> w,
                   timer_set |-> set, timer_queued |-> FALSE, queue_failed |-> FALSE]
             ELSE IF ~r.ok
             THEN [cs |-> c1, sq |-> q, timerfd |-> tfd1, wait |-> FALSE,
                   timer_set |-> set, timer_queued |-> FALSE, queue_failed |-> TRUE]
             ELSE [cs |-> [c1 EXCEPT !.active_wait = r.active_wait],
                   sq |-> r.sq, timerfd |-> tfd1, wait |-> w,
                   timer_set |-> set, timer_queued |-> TRUE, queue_failed |-> FALSE]

\* a variant that does not arm the timer for the requested timeout
ArmTimer_NoOneshot(c, q, tfd, w, to) ==
    IF ~w
    THEN [cs |-> c, sq |-> q, timerfd |-> tfd, wait |-> w,
          timer_set |-> "none", timer_queued |-> FALSE, queue_failed |-> FALSE]
    ELSE LET set == IF c.timer_pending THEN "Disarmed" ELSE "none"
             tfd1 == IF set = "none" THEN tfd ELSE set
             c1 == IF set = "none" THEN c ELSE [c EXCEPT !.timer_pending = FALSE]
             r == QueueTimerPoll(q, c1.active_wait)
         IN  IF ~c1.requeue_timer
             THEN [cs |-> c1, sq |-> q, timerfd |-> tfd1, wait |-> w,
                   timer_set |-> set, timer_queued |-> FALSE, queue_failed |-> FALSE]
             ELSE IF ~r.ok
             THEN [cs |-> c1, sq |-> q, timerfd |-> tfd1, wait |-> FALSE,
                   timer_set |-> set, timer_queued |-> FALSE, queue_failed |-> TRUE]
             ELSE [cs |-> [c1 EXCEPT !.requeue_timer = FALSE,
                                     !.active_wait = r.active_wait],
                   sq |-> r.sq, timerfd |-> tfd1, wait |-> w,
                   timer_set |-> set, timer_queued |-> TRUE, queue_failed |-> FALSE]

\* if wait { set the timer; requeue the TIMER watch }
ArmTimer(c, q, tfd, w, to) ==
    IF ~w
    THEN [cs |-> c, sq |-> q, timerfd |-> tfd, wait |-> w,
          timer_set |-> "none", timer_queued |-> FALSE, queue_failed |-> FALSE]
    ELSE LET set == IF IsSome(to) THEN "Oneshot"
                    ELSE IF c.timer_pending THEN "Disarmed" ELSE "none"
             tfd1 == IF set = "none" THEN tfd ELSE set
             c1 == IF set = "none" THEN c ELSE [c EXCEPT !.timer_pending = FALSE]
             r == QueueTimerPoll(q, c1.active_wait)
         IN  IF ~c1.requeue_timer
             THEN [cs |-> c1, sq |-> q, timerfd |-> tfd1, wait |-> w,
                   timer_set |-> set, timer_queued |-> FALSE, queue_failed |-> FALSE]
             ELSE IF ~r.ok
             THEN [cs |-> c1, sq |-> q, timerfd |-> tfd1, wait |-> FALSE,
                   timer_set |-> set, timer_queued |-> FALSE, queue_failed |-> TRUE]
             ELSE [cs |-> [c1 EXCEPT !.requeue_timer = FALSE,
                                     !.active_wait = r.active_wait],
                   sq |-> r.sq, timerfd |-> tfd1, wait |-> w,
                   timer_set |-> set, timer_queued |-> TRUE, queue_failed |-> FALSE]

ParkArmTimer ==
    /\ pc = "arm_timer" /\ ~panicked
    /\ LET a == ArmTimer(cs, sq, timerfd, wait, timeout)
       IN  /\ cs' = a.cs
           /\ sq' = a.sq
           /\ timerfd' = a.timerfd
           /\ wait' = a.wait
           /\ turn' = [turn EXCEPT !.timer_set = a.timer_set,
                                   !.timer_queued = a.timer_queued,
                                   !.queue_failed = a.queue_failed]
    /\ pc' = "arm_park"
    /\ UNCHANGED <<alive, panicked, park_event, inflight, cq, timeout, futures,
                   slots, calls, woken>>

\* a variant that keeps `wait` when the WAKE watch could not be queued
ArmPark_WaitWhenFull(c, q, w) ==
    LET r == QueueParkRead(q, c.active_wait)
    IN  IF ~(w /\ c.requeue_park)
        THEN [cs |-> c, sq |-> q, wait |-> w, park_queued |-> FALSE,
              queue_failed |-> FALSE]
        ELSE IF ~r.ok
        THEN [cs |-> c, sq |-> q, wait |-> w, park_queued |-> FALSE,
              queue_failed |-> TRUE]
        ELSE [cs |-> [c EXCEPT !.requeue_park = FALSE, !.active_wait = r.active_wait],
              sq |-> r.sq, wait |-> w, park_queued |-> TRUE, queue_failed |-> FALSE]

\* if wait && requeue_park { requeue the WAKE watch }
ArmPark(c, q, w) ==
    LET r == QueueParkRead(q, c.active_wait)
    IN  IF ~(w /\ c.requeue_park)
        THEN [cs |-> c, sq |-> q, wait |-> w, park_queued |-> FALSE,
              queue_failed |-> FALSE]
        ELSE IF ~r.ok
        THEN [cs |-> c, sq |-> q, wait |-> FALSE, park_queued |-> FALSE,
              queue_failed |-> TRUE]
        ELSE [cs |-> [c EXCEPT !.requeue_park = FALSE, !.active_wait = r.active_wait],
              sq |-> r.sq, wait |-> w, park_queued |-> TRUE, queue_failed |-> FALSE]

ParkArmPark ==
    /\ pc = "arm_park" /\ ~panicked
    /\ LET a == ArmPark(cs, sq, wait)
       IN  /\ cs' = a.cs
           /\ sq' = a.sq
           /\ wait' = a.wait
           /\ turn' = [turn EXCEPT !.park_queued = a.park_queued,
                                   !.queue_failed = @ \/ a.queue_failed]
    /\ pc' = "gate"
    /\ UNCHANGED <<alive, panicked, park_event, timerfd, inflight, cq, timeout,
                   futures, slots, calls, woken>>

\* if 0 == pending && !wait { return Ok(()); }
SkipEnter(pending, w) == pending = 0 /\ ~w

\* pending_submissions(), the enter gate, and the decision to call enter at all
ParkGate ==
    /\ pc = "gate" /\ ~panicked
    /\ LET pending == Len(sq)
           allow_wait == ParkEnterAllowWait
           w == WaitAfterGate(wait, allow_wait)
       IN  /\ wait' = w
           /\ IF SkipEnter(pending, w)
              THEN /\ pc' = "done"
                   /\ turn' = [turn EXCEPT !.vetoed = ~allow_wait,
                                           !.enter = "skipped", !.result = "ok"]
              ELSE /\ pc' = "enter"
                   /\ turn' = [turn EXCEPT !.vetoed = ~allow_wait]
    /\ UNCHANGED <<alive, panicked, cs, park_event, timerfd, sq, inflight, cq,
                   timeout, futures, slots, calls, woken>>

\* how the model names the mode of an enter call
EnterMode(a) == IF a.min_complete >= 1 THEN "blocking" ELSE "submit_only"

Count(q, t) == Cardinality({k \in 1..Len(q) : q[k] = t})

\* uring.file().enter(pending, min_complete, flags, None): the kernel takes the
\* pending requests; with min_complete = 1 the call returns once a completion is there
ParkEnter ==
    /\ pc = "enter" /\ ~panicked
    /\ LET a == EnterArgs(wait)
       IN  /\ turn' = [turn EXCEPT !.enter = EnterMode(a), !.enters = @ + 1]
           /\ pc' = IF a.min_complete >= 1 THEN "blocked" ELSE "check2"
    /\ inflight' = [t \in Tags |-> inflight[t] + Count(sq, t)]
    /\ sq' = <<>>
    /\ UNCHANGED <<alive, panicked, cs, park_event, timerfd, cq, wait, timeout,
                   futures, slots, calls, woken>>

\* enter(..)? fails: park_inner returns the error without draining
ParkEnterErr ==
    /\ pc = "enter" /\ ~panicked
    /\ turn' = [turn EXCEPT !.enter = EnterMode(EnterArgs(wait)), !.enters = @ + 1,
                            !.result = "err"]
    /\ pc' = "done"
    /\ UNCHANGED <<alive, panicked, cs, park_event, timerfd, sq, inflight, cq, wait,
                   timeout, futures, slots, calls, woken>>

\* the blocking enter call returns: at least one completion is available
ParkEnterReturn ==
    /\ pc = "blocked" /\ ~panicked
    /\ cq # <<>>
    /\ pc' = "check2"
    /\ UNCHANGED <<alive, panicked, cs, park_event, timerfd, sq, inflight, cq, wait,
                   timeout, turn, futures, slots, calls>>
    /\ UNCHANGED woken

\* self.check_completions(); Ok(())
ParkCheckAgain ==
    /\ pc = "check2" /\ ~panicked
    /\ LET c == CheckCompletions(DispatchState, cq)
       IN  /\ SetDispatchState(c.st)
           /\ cq' = c.cq
    /\ turn' = [turn EXCEPT !.result = "ok"]
    /\ pc' = "done"
    /\ UNCHANGED <<alive, timerfd, sq, inflight, wait, timeout, futures, calls>>

\* park / park_timeout returns to the executor
ParkReturn ==
    /\ pc = "done" /\ ~panicked
    /\ pc' = "idle"
    /\ wait' = FALSE
    /\ timeout' = None
    /\ turn' = BlankTurn
    /\ UNCHANGED <<alive, panicked, cs, park_event, timerfd, sq, inflight, cq,
                   futures, slots, calls, woken>>

(***************************************************************************)
(* The environment: the kernel side of the ring, the timer, and the        *)
(* thread that holds an Unpark.                                            *)
(***************************************************************************)
Cqe(user_data, res) == [user_data |-> user_data, res |-> res]

\* the kernel finishes a read or write it holds and reports res
KernelComplete(t, res) ==
    /\ alive /\ ~panicked
    /\ t \in UserTags /\ inflight[t] > 0
    /\ inflight' = [inflight EXCEPT ![t] = @ - 1]
    /\ cq' = Append(cq, Cqe(t, res))
    /\ calls' = [calls EXCEPT ![FromUserData(t)].reported = Some(res)]
    /\ UNCHANGED <<alive, panicked, cs, park_event, timerfd, sq, pc, wait, timeout,
                   turn, futures, slots, woken>>

\* the one-shot timer reaches its deadline: the descriptor becomes readable
TimerExpire ==
    /\ alive /\ ~panicked
    /\ timerfd = "Oneshot"
    /\ timerfd' = "Expired"
    /\ UNCHANGED <<alive, panicked, cs, park_event, sq, inflight, cq, pc, wait,
                   timeout, turn, futures, slots, calls, woken>>

\* the TIMER watch (poll_add IN on the timer) completes: the timer is readable
KernelTimerReady ==
    /\ alive /\ ~panicked
    /\ inflight[TIMER] > 0 /\ timerfd = "Expired"
    /\ inflight' = [inflight EXCEPT ![TIMER] = @ - 1]
    /\ cq' = Append(cq, Cqe(TIMER, 1))
    /\ UNCHANGED <<alive, panicked, cs, park_event, timerfd, sq, pc, wait, timeout,
                   turn, futures, slots, calls, woken>>

\* the WAKE watch (poll_add IN on the wake descriptor) completes: a signal is pending
KernelParkReady ==
    /\ alive /\ ~panicked
    /\ inflight[PARK] > 0 /\ park_event
    /\ inflight' = [inflight EXCEPT ![PARK] = @ - 1]
    /\ cq' = Append(cq, Cqe(PARK, 1))
    /\ UNCHANGED <<alive, panicked, cs, park_event, timerfd, sq, pc, wait, timeout,
                   turn, futures, slots, calls, woken>>

\* the ring reports the completion of a fire-and-forget request: tag 0
RingFireAndForget ==
    /\ alive /\ ~panicked
    /\ \A k \in 1..Len(cq) : cq[k].user_data # 0
    /\ cq' = Append(cq, Cqe(0, 0))
    /\ UNCHANGED <<alive, panicked, cs, park_event, timerfd, sq, inflight, pc, wait,
                   timeout, turn, futures, slots, calls, woken>>

\* odd tags outside the fixed sentinel set
UnknownTags == {5, 7}

\* a misbehaving ring completes a request it holds under an unrecognized tag
RingUnknownTag(t, u) ==
    /\ alive /\ ~panicked
    /\ inflight[t] > 0
    /\ inflight' = [inflight EXCEPT ![t] = @ - 1]
    /\ cq' = Append(cq, Cqe(u, 0))
    /\ UNCHANGED <<alive, panicked, cs, park_event, timerfd, sq, pc, wait, timeout,
                   turn, futures, slots, calls, woken>>

\* Unpark::unpark from another thread: signal the wake primitive
UnparkSignal ==
    /\ alive /\ ~panicked
    /\ ~park_event
    /\ park_event' = TRUE
    /\ UNCHANGED <<alive, panicked, cs, timerfd, sq, inflight, cq, pc, wait, timeout,
                   turn, futures, slots, calls, woken>>

(***************************************************************************)
(* Handle::async_read, Handle::async_write and the futures they return.    *)
(***************************************************************************)
Payload(buf, file) == [buf |-> buf, file |-> file]
PendingFuture(kind) ==
    [kind |-> kind, state |-> "Pending", e |-> NoError, buf |-> None, file |-> None]
\* AsyncReadState::InitFailed(e, buf, file)
InitFailed(e, buf, file) ==
    [kind |-> "read", state |-> "InitFailed", e |-> e, buf |-> Some(buf),
     file |-> Some(file)]
ClosedRead == [kind |-> "read", state |-> "Closed", e |-> NoError, buf |-> None,
               file |-> None]

\* r.result as usize, for the results it is applied to (r.result >= 0)
AsUsize(r) == r

\* a variant that does not look at queue_result
AsyncReadCall_Unchecked(i, up, q, active_wait, file, buf) ==
    IF ~up
    THEN [future |-> InitFailed(ReactorDead, buf, file), slot |-> FreeSlot,
          sq |-> q, active_wait |-> active_wait, ret |-> RetFuture, panic |-> FALSE]
    ELSE LET reg == RegistrationNew(Payload(buf, file))
             r == QueueAsyncRead(q, active_wait, i)
         IN  [future |-> PendingFuture("read"), slot |-> reg, sq |-> r.sq,
              active_wait |-> r.active_wait, ret |-> RetFuture, panic |-> FALSE]

\* Handle::async_read for the operation whose Slot is i; up: the Weak upgrades
AsyncReadCall(i, up, q, active_wait, file, buf) ==
    IF ~up
    THEN [future |-> InitFailed(ReactorDead, buf, file), slot |-> FreeSlot,
          sq |-> q, active_wait |-> active_wait, ret |-> RetFuture, panic |-> FALSE]
    ELSE LET reg == RegistrationNew(Payload(buf, file))
             r == QueueAsyncRead(q, active_wait, i)
             ab == RegistrationAbort(reg)
         IN  IF r.ok
             THEN [future |-> PendingFuture("read"), slot |-> reg, sq |-> r.sq,
                   active_wait |-> r.active_wait, ret |-> RetFuture, panic |-> FALSE]
             ELSE IF IsSome(ab.data)
             THEN [future |-> InitFailed(SqFullMapErr, Unwrap(ab.data).buf,
                                         Unwrap(ab.data).file),
                   slot |-> ab.slot, sq |-> r.sq, active_wait |-> r.active_wait,
                   ret |-> RetFuture, panic |-> FALSE]
             ELSE [future |-> NoFuture, slot |-> ab.slot, sq |-> r.sq,
                   active_wait |-> r.active_wait, ret |-> RetPanic, panic |-> TRUE]

\* Handle::async_write: io::Result<AsyncWrite>; `?` returns the io::Error alone,
\* and the function's buf, file and reg are dropped
AsyncWriteCall(i, up, q, active_wait, file, buf) ==
    IF ~up
    THEN [future |-> NoFuture, slot |-> FreeSlot, sq |-> q,
          active_wait |-> active_wait, ret |-> RetErr1(ReactorDead), panic |-> FALSE]
    ELSE LET reg == RegistrationNew(Payload(buf, file))
             r == QueueAsyncWrite(q, active_wait, i)
         IN  IF r.ok
             THEN [future |-> PendingFuture("write"), slot |-> reg, sq |-> r.sq,
                   active_wait |-> r.active_wait, ret |-> RetFuture, panic |-> FALSE]
             ELSE [future |-> NoFuture,
                   slot |-> [reg EXCEPT !.state = "dropped", !.data = None],
                   sq |-> r.sq, active_wait |-> r.active_wait,
                   ret |-> RetErr1(SqFullMapErr), panic |-> FALSE]

\* a variant whose Closed state hands out a stale failure instead of panicking
AsyncReadPoll_ClosedRepeats(f, s) ==
    IF f.state = "Pending"
    THEN LET p == RegistrationPoll(s)
         IN  CASE p.kind = "NotReady" ->
                    [future |-> f, slot |-> p.slot, ret |-> RetNotReady, panic |-> FALSE]
               [] p.kind = "Ready" ->
                    [future |-> ClosedRead, slot |-> p.slot,
                     ret |-> IF p.result < 0
                             THEN RetErr3(FromRawOsError(p.result),
                                          Unwrap(p.data).buf, Unwrap(p.data).file)
                             ELSE RetReady(AsUsize(p.result),
                                           Unwrap(p.data).buf, Unwrap(p.data).file),
                     panic |-> FALSE]
               [] OTHER ->
                    [future |-> f, slot |-> p.slot, ret |-> RetPanic, panic |-> TRUE]
    ELSE IF f.state = "InitFailed"
    THEN [future |-> ClosedRead, slot |-> s,
          ret |-> RetErr3(f.e, Unwrap(f.buf), Unwrap(f.file)), panic |-> FALSE]
    ELSE [future |-> ClosedRead, slot |-> s, ret |-> RetErr1(OtherError("closed")),
          panic |-> FALSE]

\* <AsyncRead as Future>::poll
AsyncReadPoll(f, s) ==
    IF f.state = "Pending"
    THEN LET p == RegistrationPoll(s)
         IN  CASE p.kind = "NotReady" ->
                    [future |-> f, slot |-> p.slot, ret |-> RetNotReady, panic |-> FALSE]
               [] p.kind = "Ready" ->
                    [future |-> ClosedRead, slot |-> p.slot,
                     ret |-> IF p.result < 0
                             THEN RetErr3(FromRawOsError(p.result),
                                          Unwrap(p.data).buf, Unwrap(p.data).file)
                             ELSE RetReady(AsUsize(p.result),
                                           Unwrap(p.data).buf, Unwrap(p.data).file),
                     panic |-> FALSE]
               [] OTHER ->
                    [future |-> f, slot |-> p.slot, ret |-> RetPanic, panic |-> TRUE]
    ELSE IF f.state = "InitFailed"
    THEN [future |-> ClosedRead, slot |-> s,
          ret |-> RetErr3(f.e, Unwrap(f.buf), Unwrap(f.file)), panic |-> FALSE]
    ELSE \* AsyncReadState::Closed => panic!("already finished")
         [future |-> ClosedRead, slot |-> s, ret |-> RetPanic, panic |-> TRUE]

\* a variant that tests r.result <= 0
AsyncWritePoll_ZeroFails(f, s) ==
    LET p == RegistrationPoll(s)
    IN  CASE p.kind = "NotReady" ->
               [future |-> f, slot |-> p.slot, ret |-> RetNotReady, panic |-> FALSE]
          [] p.kind = "Ready" ->
               [future |-> f, slot |-> p.slot,
                ret |-> IF p.result <= 0
                        THEN RetErr3(FromRawOsError(p.result),
                                     Unwrap(p.data).buf, Unwrap(p.data).file)
                        ELSE RetReady(AsUsize(p.result),
                                      Unwrap(p.data).buf, Unwrap(p.data).file),
                panic |-> FALSE]
          [] OTHER ->
               [future |-> f, slot |-> p.slot, ret |-> RetPanic, panic |-> TRUE]

\* <AsyncWrite as Future>::poll
AsyncWritePoll(f, s) ==
    LET p == RegistrationPoll(s)
    IN  CASE p.kind = "NotReady" ->
               [future |-> f, slot |-> p.slot, ret |-> RetNotReady, panic |-> FALSE]
          [] p.kind = "Ready" ->
               [future |-> f, slot |-> p.slot,
                ret |-> IF p.result < 0
                        THEN RetErr3(FromRawOsError(p.result),
                                     Unwrap(p.data).buf, Unwrap(p.data).file)
                        ELSE RetReady(AsUsize(p.result),
                                      Unwrap(p.data).buf, Unwrap(p.data).file),
                panic |-> FALSE]
          [] OTHER ->
               [future |-> f, slot |-> p.slot, ret |-> RetPanic, panic |-> TRUE]

\* operations are issued in order: i is the first one not yet issued
NextOp(i) ==
    /\ calls[i].sync.kind = "None"
    /\ \A j \in Ops : j < i => calls[j].sync.kind # "None"

IssueOp(i, r, file, buf) ==
    /\ futures' = [futures EXCEPT ![i] = r.future]
    /\ slots' = [slots EXCEPT ![i] = r.slot]
    /\ sq' = r.sq
    /\ cs' = [cs EXCEPT !.active_wait = r.active_wait]
    /\ calls' = [calls EXCEPT ![i] = [buf |-> Some(buf), file |-> Some(file),
                                      sync |-> r.ret, ret |-> NoRet, nres |-> 0,
                                      reported |-> None, nsub |-> 0, since |-> 0]]
    /\ panicked' = r.panic
    /\ UNCHANGED <<alive, park_event, timerfd, inflight, cq, pc, wait, timeout,
                   turn, woken>>

\* a task calls handle.async_read(file, offset, buf)
AsyncRead(i, file, buf) ==
    /\ pc = "idle" /\ ~panicked
    /\ NextOp(i)
    /\ IssueOp(i, AsyncReadCall(i, alive, sq, cs.active_wait, file, buf), file, buf)

\* a task calls handle.async_write(file, offset, buf)
AsyncWrite(i, file, buf) ==
    /\ pc = "idle" /\ ~panicked
    /\ NextOp(i)
    /\ IssueOp(i, AsyncWriteCall(i, alive, sq, cs.active_wait, file, buf), file, buf)

IsResolution(ret) == ret.kind \in {"Ready", "Err"}

PollOp(i, r) ==
    /\ futures' = [futures EXCEPT ![i] = r.future]
    /\ slots' = [slots EXCEPT ![i] = r.slot]
    /\ calls' = [calls EXCEPT ![i].ret = r.ret,
                              ![i].nres = IF IsResolution(r.ret) THEN @ + 1 ELSE @]
    /\ woken' = woken \ {i}
    /\ panicked' = r.panic
    /\ UNCHANGED <<alive, cs, park_event, timerfd, sq, inflight, cq, pc, wait,
                   timeout, turn>>

\* the task that owns the AsyncRead polls it
PollRead(i) ==
    /\ pc = "idle" /\ ~panicked
    /\ futures[i].kind = "read"
    /\ PollOp(i, AsyncReadPoll(futures[i], slots[i]))

\* the task that owns the AsyncWrite polls it
PollWrite(i) ==
    /\ pc = "idle" /\ ~panicked
    /\ futures[i].kind = "write"
    /\ PollOp(i, AsyncWritePoll(futures[i], slots[i]))

\* the Reactor is dropped: every Handle's Weak stops upgrading
DropReactor ==
    /\ pc = "idle" /\ ~panicked
    /\ alive
    /\ alive' = FALSE
    /\ UNCHANGED <<panicked, cs, park_event, timerfd, sq, inflight, cq, pc, wait,
                   timeout, turn, futures, slots, calls, woken>>

(***************************************************************************)
(* Handle::async_poll and the AsyncPoll stream.                            *)
(***************************************************************************)
\* the payload of an AsyncPoll's Registration: ()
Unit == "()"
\* r.result as u16
AsU16(r) == r % 65536
\* io_uring::PollFlags::from_bits_truncate: the bits of the 16-bit readiness mask
FromBitsTruncate(bits) == bits % 65536
\* Ok(Async::Ready(Some(flags)))
RetItem(flags) == Ret("Ready", flags, NoError, None, None)

\* Handle::async_poll: nothing is submitted; active: false
AsyncPollNew ==
    [kind |-> "poll", state |-> "Stream", e |-> NoError, buf |-> None, file |-> None,
     active |-> FALSE]

\* a variant that drops the result of queue_async_poll
AsyncPollPoll_FullIgnored(i, f, s, up, q, active_wait) ==
    IF ~f.active
    THEN IF ~up
         THEN [future |-> f, slot |-> s, sq |-> q, active_wait |-> active_wait,
               ret |-> RetErr1(ReactorDead), queued |-> FALSE]
         ELSE LET r == QueueAsyncPoll(q, active_wait, i)
              IN  [future |-> [f EXCEPT !.active = TRUE],
                   slot |-> RegistrationTrack(s), sq |-> r.sq,
                   active_wait |-> r.active_wait,
                   ret |-> RetNotReady, queued |-> r.ok]
    ELSE LET p == RegistrationPollStreamAndReset(s)
         IN  IF p.kind = "NotReady"
             THEN [future |-> f, slot |-> p.slot, sq |-> q,
                   active_wait |-> active_wait, ret |-> RetNotReady, queued |-> FALSE]
             ELSE [future |-> [f EXCEPT !.active = FALSE], slot |-> p.slot, sq |-> q,
                   active_wait |-> active_wait,
                   ret |-> IF p.result < 0
                           THEN RetErr1(FromRawOsError(p.result))
                           ELSE RetItem(FromBitsTruncate(AsU16(p.result))),
                   queued |-> FALSE]

\* <AsyncPoll as Stream>::poll for the stream whose Slot is i; up: the Weak upgrades
AsyncPollPoll(i, f, s, up, q, active_wait) ==
    IF ~f.active
    THEN IF ~up
         THEN [future |-> f, slot |-> s, sq |-> q, active_wait |-> active_wait,
               ret |-> RetErr1(ReactorDead), queued |-> FALSE]
         ELSE LET r == QueueAsyncPoll(q, active_wait, i)
              IN  IF ~r.ok
                  THEN [future |-> f, slot |-> s, sq |-> r.sq,
                        active_wait |-> r.active_wait,
                        ret |-> RetErr1(SqFullMapErr), queued |-> FALSE]
                  ELSE [future |-> [f EXCEPT !.active = TRUE],
                        slot |-> RegistrationTrack(s), sq |-> r.sq,
                        active_wait |-> r.active_wait,
                        ret |-> RetNotReady, queued |-> TRUE]
    ELSE LET p == RegistrationPollStreamAndReset(s)
         IN  IF p.kind = "NotReady"
             THEN [future |-> f, slot |-> p.slot, sq |-> q,
                   active_wait |-> active_wait, ret |-> RetNotReady, queued |-> FALSE]
             ELSE [future |-> [f EXCEPT !.active = FALSE], slot |-> p.slot, sq |-> q,
                   active_wait |-> active_wait,
                   ret |-> IF p.result < 0
                           THEN RetErr1(FromRawOsError(p.result))
                           ELSE RetItem(FromBitsTruncate(AsU16(p.result))),
                   queued |-> FALSE]

\* a task calls handle.async_poll(fd, flags)
AsyncPoll(i) ==
    /\ pc = "idle" /\ ~panicked
    /\ NextOp(i)
    /\ futures' = [futures EXCEPT ![i] = AsyncPollNew]
    /\ slots' = [slots EXCEPT ![i] = RegistrationNew(Unit)]
    /\ calls' = [calls EXCEPT ![i] = [NoCall EXCEPT !.sync = RetFuture]]
    /\ UNCHANGED <<alive, panicked, cs, park_event, timerfd, sq, inflight, cq, pc,
                   wait, timeout, turn, woken>>

\* the task that owns the AsyncPoll polls it
PollStream(i) ==
    /\ pc = "idle" /\ ~panicked
    /\ futures[i].kind = "poll"
    /\ futures[i].active \/ calls[i].nsub < MaxWatches
    /\ LET r == AsyncPollPoll(i, futures[i], slots[i], alive, sq, cs.active_wait)
       IN  /\ futures' = [futures EXCEPT ![i] = r.future]
           /\ slots' = [slots EXCEPT ![i] = r.slot]
           /\ sq' = r.sq
           /\ cs' = [cs EXCEPT !.active_wait = r.active_wait]
           /\ calls' = [calls EXCEPT ![i].ret = r.ret,
                                     ![i].nres = IF r.ret.kind = "Ready" THEN @ + 1 ELSE @,
                                     ![i].nsub = IF r.queued THEN @ + 1 ELSE @,
                                     ![i].since = IF r.ret.kind = "Ready" THEN 0
                                                  ELSE IF r.queued THEN @ + 1 ELSE @]
    /\ woken' = woken \ {i}
    /\ UNCHANGED <<alive, panicked, park_event, timerfd, inflight, cq, pc, wait,
                   timeout, turn>>

(***************************************************************************)
(* The specifications.  The reactor's park loop and the futures are two    *)
(* components that meet only in the ring and in handle_completion, so each *)
(* is checked in its own environment:                                      *)
(*   ParkSpec    every park / park_timeout turn, the kernel, the timer and *)
(*               the signalling thread; tasks issue operations (they fill  *)
(*               the submission queue and produce completions) but their   *)
(*               futures are not polled;                                   *)
(*   FutureSpec  tasks issue and poll reads and writes with every payload  *)
(*               and result, the reactor can be dropped, and the park      *)
(*               executor drives the reactor with park_timeout(0) turns,   *)
(*               which submit and dispatch; no signalling thread.          *)
(***************************************************************************)
ParkTurn ==
    \/ ParkPendingCheck
    \/ ParkArmTimer
    \/ ParkArmPark
    \/ ParkGate
    \/ ParkEnter
    \/ ParkEnterErr
    \/ ParkEnterReturn
    \/ ParkCheckAgain
    \/ ParkReturn

NextPark ==
    \/ ParkBegin("park", 0)
    \/ \E d \in Durations : ParkBegin("park_timeout", d)
    \/ ParkTurn
    \/ \E t \in UserTags : KernelComplete(t, 0)
    \/ TimerExpire
    \/ KernelTimerReady
    \/ KernelParkReady
    \/ UnparkSignal
    \/ \E i \in Ops : AsyncRead(i, FileOf(i), BufOf(i))

ParkSpec == Init /\ [][NextPark]_vars

NextFuture ==
    \/ ParkBegin("park_timeout", 0)
    \/ ParkPendingCheck
    \/ ParkArmTimer
    \/ ParkArmPark
    \/ ParkGate
    \/ ParkEnter
    \/ ParkEnterErr
    \/ ParkCheckAgain
    \/ ParkReturn
    \/ \E t \in UserTags, res \in Results : KernelComplete(t, res)
    \/ \E i \in Ops : AsyncRead(i, FileOf(i), BufOf(i))
    \/ \E i \in Ops : AsyncWrite(i, FileOf(i), BufOf(i))
    \/ \E i \in Ops : PollRead(i)
    \/ \E i \in Ops : PollWrite(i)
    \/ DropReactor

FutureSpec == Init /\ [][NextFuture]_vars

\* the results the kernel reports for a watch request: a failure, and a readiness
\* mask in a value wider than 16 bits
PollResults == {-11, 65540}
StreamTags == {IntoUserData(i) : i \in 1..MaxStreams}

\* tasks create and poll AsyncPoll streams (the first MaxStreams operations) and
\* issue reads, which fill the submission queue; the executor drives the reactor
\* with park_timeout(0) turns; the reactor can be dropped
NextPoll ==
    \/ ParkBegin("park_timeout", 0)
    \/ ParkPendingCheck
    \/ ParkArmTimer
    \/ ParkArmPark
    \/ ParkGate
    \/ ParkEnter
    \/ ParkEnterErr
    \/ ParkCheckAgain
    \/ ParkReturn
    \/ \E t \in StreamTags, res \in PollResults : KernelComplete(t, res)
    \/ \E t \in UserTags \ StreamTags : KernelComplete(t, 0)
    \/ \E i \in Ops : i <= MaxStreams /\ AsyncPoll(i)
    \/ \E i \in Ops : i > MaxStreams /\ AsyncRead(i, FileOf(i), BufOf(i))
    \/ \E i \in Ops : PollStream(i)
    \/ DropReactor

PollSpec == Init /\ [][NextPoll]_vars

\* tasks issue reads, writes and AsyncPoll streams and poll them; the executor
\* drives the reactor with park_timeout(0) turns, which empty the submission
\* queue; every request completes with result 0
NextSubmit ==
    \/ ParkBegin("park_timeout", 0)
    \/ ParkPendingCheck
    \/ ParkArmTimer
    \/ ParkArmPark
    \/ ParkGate
    \/ ParkEnter
    \/ ParkEnterErr
    \/ ParkCheckAgain
    \/ ParkReturn
    \/ \E t \in UserTags : KernelComplete(t, 0)
    \/ \E i \in Ops : AsyncRead(i, FileOf(i), BufOf(i))
    \/ \E i \in Ops : AsyncWrite(i, FileOf(i), BufOf(i))
    \/ \E i \in Ops : i <= MaxStreams /\ AsyncPoll(i)
    \/ \E i \in Ops : PollRead(i)
    \/ \E i \in Ops : PollWrite(i)
    \/ \E i \in Ops : PollStream(i)

SubmitSpec == Init /\ [][NextSubmit]_vars

(***************************************************************************)
(* Properties of the park loop (checked under ParkSpec).                   *)
(***************************************************************************)
\* the enter call of this turn was invoked with min_complete >= 1 / GETEVENTS
BlockingEnter == turn.enter = "blocking" \/ pc = "blocked"

CountCq(t) == Cardinality({k \in 1..Len(cq) : cq[k].user_data = t})
\* the watch tagged t is queued or in flight, or it has completed and its
\* completion waits in the completion queue (which ends a blocking enter at once)
WatchLive(t) == Count(sq, t) + inflight[t] + CountCq(t) >= 1

\* C1: a park turn whose first check_completions drained at least one completion
\* never invokes enter in blocking mode: once it has passed the gate it has either
\* skipped the enter call or called it submit-only.
C1_NoBlockAfterDrain ==
    turn.drained =>
        /\ ~BlockingEnter
        /\ ~wait
        /\ pc \in {"check2", "done"} => turn.enter \in {"skipped", "submit_only"}

\* a park() turn that drained a completion and then called enter submit-only
C1_Witness ==
    /\ turn.api = "park" /\ turn.drained
    /\ pc = "done" /\ turn.enter = "submit_only"

\* C3: while a blocking enter call is under way (invoked and no completion
\* dispatched since) requeue_timer and requeue_park are false and the TIMER and
\* the WAKE watch are live; a turn in which queueing a watch failed does not block.
C3_BlocksOnlyWithWatches ==
    /\ (BlockingEnter /\ (pc \in {"blocked", "check2"} \/ turn.result = "err")) =>
            /\ ~cs.requeue_timer /\ ~cs.requeue_park
            /\ WatchLive(TIMER) /\ WatchLive(PARK)
    /\ turn.queue_failed => (~BlockingEnter /\ ~wait)

\* a turn blocks after re-arming the WAKE watch, the TIMER watch being in flight
C3_Witness ==
    /\ pc = "blocked" /\ turn.park_queued
    /\ inflight[TIMER] = 1 /\ inflight[PARK] = 1

\* C5: a turn in which park.pending() was true at the early check, or in which
\* park.enter() returned allow_wait = false, does not invoke enter in blocking mode.
C5_WakeVetoes ==
    (turn.saw_pending \/ turn.vetoed) => (~BlockingEnter /\ (pc # "gate" => ~wait))

\* park(): nothing drained, no signal at the early check, the WAKE watch queued,
\* and the gate vetoes: the turn ends with a submit-only enter
C5_Witness ==
    /\ turn.api = "park" /\ ~turn.drained /\ ~turn.saw_pending /\ ~turn.queue_failed
    /\ turn.park_queued /\ turn.vetoed
    /\ pc = "done" /\ turn.enter = "submit_only"

\* C6: a park_timeout(0) turn never sets the timer (neither one-shot nor disarm),
\* never queues a TIMER watch and never invokes enter in blocking mode.
C6_ZeroTimeoutPollsOnly ==
    (turn.api = "park_timeout" /\ turn.duration = 0) =>
        /\ turn.timer_set = "none"
        /\ ~turn.timer_queued /\ ~turn.park_queued
        /\ ~BlockingEnter /\ ~wait
        /\ timeout = None

\* park_timeout(0) with nothing drained, no signal pending, the TIMER watch due
\* for requeueing and the timer's last expiry not yet consumed: it submits only
C6_Witness ==
    /\ turn.api = "park_timeout" /\ turn.duration = 0
    /\ ~turn.drained /\ ~turn.saw_pending /\ ~turn.vetoed
    /\ cs.requeue_timer /\ cs.timer_pending
    /\ pc = "done" /\ turn.enter = "submit_only"

(***************************************************************************)
(* Liveness of the park loop.  The reactor thread keeps running (every     *)
(* enabled step of a turn is eventually taken) and the kernel eventually   *)
(* completes a WAKE watch whose descriptor is readable.  Nothing is        *)
(* assumed of the timer, of the other completions or of the signalling     *)
(* thread.  The actions are those of ParkSpec, with LiveOps operations.    *)
(***************************************************************************)
NextLivePark ==
    \/ ParkBegin("park", 0)
    \/ \E d \in Durations : ParkBegin("park_timeout", d)
    \/ ParkTurn
    \/ \E t \in UserTags : KernelComplete(t, 0)
    \/ TimerExpire
    \/ KernelTimerReady
    \/ KernelParkReady
    \/ UnparkSignal
    \/ \E i \in Ops : i <= LiveOps /\ AsyncRead(i, FileOf(i), BufOf(i))

LiveParkSpec ==
    /\ Init /\ [][NextLivePark]_vars
    /\ WF_vars(ParkTurn)
    /\ WF_vars(KernelParkReady)

\* the park loop when the timer and the ring also make progress: an armed timer
\* reaches its deadline and the kernel completes a TIMER watch whose descriptor
\* is readable
TimedParkSpec ==
    /\ Init /\ [][NextLivePark]_vars
    /\ WF_vars(ParkTurn)
    /\ WF_vars(TimerExpire)
    /\ WF_vars(KernelTimerReady)

\* the park loop with a ring that also reports fire-and-forget completions
NextEcho ==
    \/ NextLivePark
    \/ RingFireAndForget

EchoSpec == Init /\ [][NextEcho]_vars

\* the park loop with a ring that may report a request under an unrecognized tag
NextMock ==
    \/ NextLivePark
    \/ \E t \in Tags, u \in UnknownTags : RingUnknownTag(t, u)

MockSpec == Init /\ [][NextMock]_vars

\* the turn has been entered and has not yet produced its result
InTurn == pc \in {"pending", "arm_timer", "arm_park", "gate", "enter", "blocked", "check2"}

\* C2: a park turn during which a signal of the wake primitive is pending (sent
\* before the turn or while it runs or blocks) eventually returns.
C2_NoMissedWakeup == (InTurn /\ park_event) ~> (pc = "done")

\* the signal arrives while the reactor is blocked in enter and nothing has completed
C2_Witness ==
    /\ pc = "blocked" /\ park_event /\ cq = <<>>
    /\ turn.api = "park"

(***************************************************************************)
(* Properties of the futures (checked under FutureSpec).                   *)
(***************************************************************************)
Issued(i) == calls[i].sync.kind # "None"
Abs(n) == IF n < 0 THEN -n ELSE n
InRing(t) == Count(sq, t) + inflight[t] + CountCq(t) >= 1
\* the value a poll returned is a resolution brought by a completion
ResolvedByCompletion(i) ==
    \/ calls[i].ret.kind = "Ready"
    \/ calls[i].ret.kind = "Err" /\ calls[i].ret.err.kind = "os"
\* ret is the resolution of operation i for the kernel's result r
ResolutionFor(i, ret, r) ==
    /\ ret.buf = calls[i].buf /\ ret.file = calls[i].file
    /\ IF r < 0
       THEN ret.kind = "Err" /\ ret.err.kind = "os" /\ Abs(ret.err.code) = Abs(r)
       ELSE ret.kind = "Ready" /\ ret.n = r

\* C4: operations outstanding together carry pairwise distinct, even, non-zero
\* tags; a Slot holds an outcome, a task is woken and a future is resolved only
\* once the completion carrying the operation's own tag has been dispatched, and
\* then with the result the kernel reported for that tag and with the operation's
\* own buffer and file.
C4_CompletionCorrelation ==
    /\ \A i, j \in Ops :
          (i # j /\ InRing(IntoUserData(i)) /\ InRing(IntoUserData(j))) =>
              /\ IntoUserData(i) # IntoUserData(j)
              /\ IntoUserData(i) % 2 = 0 /\ IntoUserData(i) # 0
    /\ \A i \in Ops :
          /\ IsSome(slots[i].outcome) =>
                /\ slots[i].outcome = calls[i].reported
                /\ ~InRing(IntoUserData(i))
          /\ i \in woken => IsSome(slots[i].outcome)
          /\ ResolvedByCompletion(i) =>
                /\ IsSome(calls[i].reported)
                /\ ~InRing(IntoUserData(i))
                /\ ResolutionFor(i, calls[i].ret, Unwrap(calls[i].reported))

\* two operations in flight together; the later one's completion is delivered
\* first and resolves it while the earlier one is still not ready
C4_Witness ==
    /\ inflight[IntoUserData(1)] = 1
    /\ calls[1].ret.kind = "NotReady"
    /\ calls[2].ret.kind = "Ready" /\ calls[2].ret.n = 3
    /\ calls[2].ret.buf = Some(BufOf(2))

\* operation i enters the model in this step as a call to async_read
ReadIssued(i) == ~Issued(i) /\ futures'[i].kind = "read"
\* submission fails synchronously in the current state
SubmissionFails == ~alive \/ Len(sq) >= SqEntries
\* the task polls the future of operation i in this step
PollStep(i) ==
    /\ pc = "idle" /\ pc' = "idle" /\ Issued(i)
    /\ \/ calls'[i].ret # calls[i].ret
       \/ calls'[i].nres # calls[i].nres
       \/ slots'[i] # slots[i]
       \/ futures'[i] # futures[i]

C7_State ==
    \A i \in Ops :
        futures[i].state = "InitFailed" =>
            /\ futures[i].buf = calls[i].buf /\ futures[i].file = calls[i].file
            /\ futures[i].e \in {ReactorDead, SqFullMapErr}
            /\ ~InRing(IntoUserData(i))
            /\ ~IsSome(calls[i].reported)

C7_Step ==
    \A i \in Ops :
        /\ (ReadIssued(i) /\ SubmissionFails) =>
              /\ futures'[i].state = "InitFailed"
              /\ sq' = sq /\ inflight' = inflight /\ cq' = cq
              /\ cs'.active_wait = cs.active_wait
        /\ (PollStep(i) /\ futures[i].state = "InitFailed") =>
              /\ calls'[i].ret = RetErr3(futures[i].e, Unwrap(calls[i].buf),
                                         Unwrap(calls[i].file))
              /\ calls'[i].nres = 1
              /\ ~panicked'

\* C7: async_read with the reactor gone or the submission queue full returns a
\* future in state InitFailed that holds exactly the buffer and file passed in;
\* the call adds nothing to the ring and leaves active_wait as it was, the tag never
\* reaches the kernel, and the first poll resolves to Err((e, buffer, file)).
C7_ReadInitFailureKeepsPayload == []C7_State /\ [][C7_Step]_vars

\* an async_read refused by a full submission queue has been polled once
C7_Witness ==
    \E i \in Ops :
        /\ futures[i].kind = "read" /\ futures[i].state = "Closed"
        /\ calls[i].ret = RetErr3(SqFullMapErr, BufOf(i), FileOf(i))
        /\ cs.active_wait = 1

\* C8: an async_write that fails at submission time (submission queue full, or
\* reactor gone) returns a failure that carries the buffer and the file passed in.
C8_WriteFailureReturnsPayload ==
    \A i \in Ops :
        calls[i].sync.kind = "Err" =>
            /\ calls[i].sync.buf = calls[i].buf
            /\ calls[i].sync.file = calls[i].file

\* the future of operation i is pending: not resolved, its Slot still holds the payload
FuturePending(i) == futures[i].state = "Pending" /\ IsSome(slots[i].data)

C9_Step ==
    \A i \in Ops :
        (PollStep(i) /\ FuturePending(i)) =>
            IF ~IsSome(slots[i].outcome)
            THEN /\ calls'[i].ret = RetNotReady
                 /\ futures'[i] = futures[i]
                 /\ IsSome(slots'[i].data) /\ ~IsSome(slots'[i].outcome)
                 /\ ~panicked'
            ELSE LET r == Unwrap(slots[i].outcome)
                 IN  /\ ~panicked'
                     /\ calls'[i].ret.buf = calls[i].buf
                     /\ calls'[i].ret.file = calls[i].file
                     /\ r < 0 => /\ calls'[i].ret.kind = "Err"
                                 /\ calls'[i].ret.err.kind = "os"
                     /\ r >= 0 => /\ calls'[i].ret.kind = "Ready"
                                  /\ calls'[i].ret.n = r

\* C9: a poll of a pending read or write future whose Slot has no outcome returns
\* NotReady and leaves the future pending; once the outcome r is there the poll
\* returns Err((OS error, buffer, file)) if r < 0 and Ready((r, buffer, file)) if
\* r >= 0, with the buffer and file given at submission.
C9_PollResolvesByResult == [][C9_Step]_vars

\* a write of [1,2,3] completed with result 3 resolved to Ok((3, [1,2,3], file))
C9_Witness ==
    /\ futures[1].kind = "write"
    /\ calls[1].reported = Some(3)
    /\ calls[1].ret = RetReady(3, <<1, 2, 3>>, FileOf(1))

C10_State ==
    \A i \in Ops :
        /\ calls[i].nres <= 1
        /\ calls[i].ret.kind = "Panic" => panicked

C10_Step ==
    \A i \in Ops :
        (PollStep(i) /\ calls[i].nres >= 1) =>
            /\ panicked'
            /\ calls'[i].ret = RetPanic
            /\ calls'[i].nres = calls[i].nres

StreamPollStep(i) == futures[i].kind = "poll" /\ PollStep(i)

C11_Step ==
    \A i \in Ops :
        StreamPollStep(i) =>
            /\ (~futures[i].active /\ ~SubmissionFails) =>
                  /\ sq' = Append(sq, IntoUserData(i))
                  /\ futures'[i].active
                  /\ calls'[i].ret = RetNotReady
            /\ futures[i].active => sq' = sq
            /\ (futures[i].active /\ IsSome(slots[i].outcome)
                    /\ Unwrap(slots[i].outcome) >= 0) =>
                  /\ calls'[i].ret.kind = "Ready"
                  /\ ~futures'[i].active
            /\ (calls'[i].nres = calls[i].nres + 1 /\ calls[i].nres >= 1) =>
                  calls[i].since = 1

\* C11: a poll of an inactive AsyncPoll (the ring has room) appends exactly one
\* watch request with the tag of its own Slot, marks the stream active and
\* returns NotReady; a poll of an active stream submits nothing; once the
\* completion is there the next poll yields the readiness item and marks the
\* stream inactive; and between two consecutive items the stream submitted
\* exactly one watch request.
C11_PollRearmCycle == [][C11_Step]_vars

\* C13: deliver (notify) is invoked at most once over the lifetime of a Slot; a
\* second completion with the tag of a Slot is not applied to it.
C13_AtMostOnceDelivery ==
    \A i \in Ops : slots[i].delivered <= 1

\* the last poll of stream i returned the failure a negative result brought
StreamFailed(i) ==
    /\ futures[i].kind = "poll"
    /\ calls[i].ret.kind = "Err" /\ calls[i].ret.err.kind = "os"

C17_Step ==
    \A i \in Ops :
        /\ (StreamPollStep(i) /\ futures[i].active /\ IsSome(slots[i].outcome)
                /\ Unwrap(slots[i].outcome) < 0) =>
              /\ calls'[i].ret.kind = "Err"
              /\ calls'[i].ret.err.kind = "os"
        /\ StreamFailed(i) =>
              /\ StreamFailed(i)'
              /\ calls'[i].nres = calls[i].nres
              /\ calls'[i].nsub = calls[i].nsub

\* C17: the poll that observes a negative result returns an error, and from then
\* on the stream yields no readiness item and submits no watch request.
C17_NegativeResultTerminates == [][C17_Step]_vars

(***************************************************************************)
(* The numeric meaning of a completion result (checked under FutureSpec).  *)
(***************************************************************************)
\* the platform error whose OS error code is errno
PlatformError(errno) == [kind |-> "os", code |-> errno, msg |-> ""]

\* C16: a resolved future whose completion result r is negative carries the
\* platform error with OS error code -r; a non-negative r is the byte count.
C16_NegativeResultIsErrno ==
    \A i \in Ops :
        (IsSome(calls[i].reported) /\ IsResolution(calls[i].ret)) =>
            LET r == Unwrap(calls[i].reported)
            IN  IF r < 0
                THEN calls[i].ret.kind = "Err" /\ calls[i].ret.err = PlatformError(-r)
                ELSE calls[i].ret.kind = "Ready" /\ calls[i].ret.n = r

(***************************************************************************)
(* Accounting of the requests in the ring: active_wait and the watches.    *)
(***************************************************************************)
\* the completions consumed in this step: a dispatch takes them off the front
NumConsumed == IF Len(cq') < Len(cq) THEN Len(cq) - Len(cq') ELSE 0

C12_Step ==
    /\ NumConsumed > 0 => cs'.active_wait = cs.active_wait - NumConsumed
    /\ NumConsumed = 0 => cs'.active_wait >= cs.active_wait

WatchCount(t) == Count(sq, t) + inflight[t] + CountCq(t)

C19_State ==
    /\ WatchCount(TIMER) <= 1
    /\ WatchCount(PARK) <= 1
    /\ ~cs.requeue_timer <=> WatchCount(TIMER) = 1
    /\ ~cs.requeue_park <=> WatchCount(PARK) = 1

C19_Step ==
    /\ Count(sq', TIMER) > Count(sq, TIMER) =>
          cs.requeue_timer /\ WatchCount(TIMER) = 0
    /\ Count(sq', PARK) > Count(sq, PARK) =>
          cs.requeue_park /\ WatchCount(PARK) = 0

\* C19: the ring holds at most one TIMER and at most one WAKE watch;
\* requeue_timer (requeue_park) is false exactly while one is queued, in flight
\* or completed and not yet dispatched; a watch is queued only when the flag is
\* true and the ring holds none.
C19_OneWatchEach == []C19_State /\ [][C19_Step]_vars

\* a park() turn has disarmed the timer after it fired and queued the TIMER watch
\* again, the WAKE watch of an earlier turn being still in flight
C19_Witness ==
    /\ turn.api = "park" /\ turn.timer_set = "Disarmed" /\ turn.timer_queued
    /\ ~cs.requeue_timer /\ Count(sq, TIMER) = 1
    /\ ~cs.requeue_park /\ inflight[PARK] = 1

(***************************************************************************)
(* Blocking is bounded by the timer (checked under TimedParkSpec).         *)
(***************************************************************************)
\* a park_timeout(d) turn, d # 0
TimedTurn == turn.api = "park_timeout" /\ turn.duration # 0

C15_State ==
    /\ turn.enters <= 1
    /\ (TimedTurn /\ turn.timer_queued) => turn.timer_set = "Oneshot"
    /\ (TimedTurn /\ BlockingEnter) =>
          /\ turn.timer_set = "Oneshot"
          /\ timeout = Some(turn.duration)
          /\ pc = "blocked" =>
                /\ timerfd \in {"Oneshot", "Expired"}
                /\ WatchLive(TIMER)

\* C15: a park turn calls enter at most once; a park_timeout(d) turn, d # 0, that
\* blocks has set the timer to one-shot(d), no later than it queued the TIMER
\* watch, and the TIMER watch is live; when the timer fires and the ring reports
\* it, the blocking enter call returns and the turn ends.
C15_BlockingBoundedByTimer ==
    /\ []C15_State
    /\ (TimedTurn /\ pc = "blocked") ~> (pc = "done")

\* park_timeout(5) blocks with the timer armed and its watch queued by this turn;
\* nothing has completed and no signal is pending
C15_Witness ==
    /\ TimedTurn /\ pc = "blocked"
    /\ timerfd = "Oneshot" /\ turn.timer_queued /\ inflight[TIMER] = 1
    /\ cq = <<>> /\ ~park_event

(***************************************************************************)
(* An unrecognized tag at the dispatch step (checked under MockSpec).      *)
(***************************************************************************)
\* odd, and neither TIMER nor WAKE
Unrecognized(user_data) == user_data % 2 = 1 /\ user_data \notin {TIMER, PARK}
\* one of the first n completions of the queue carries the tag t
Among(n, t) == \E j \in 1..n : cq[j].user_data = t

C18_Step ==
    \A k \in 1..NumConsumed :
        Unrecognized(cq[k].user_data) =>
            /\ panicked'
            /\ k = NumConsumed
            /\ \A i \in Ops :
                  slots'[i] # slots[i] => Among(k - 1, IntoUserData(i))
            /\ woken' # woken => \E i \in Ops : Among(k - 1, IntoUserData(i))
            /\ cs'.requeue_timer # cs.requeue_timer => Among(k - 1, TIMER)
            /\ cs'.timer_pending # cs.timer_pending => Among(k - 1, TIMER)
            /\ cs'.requeue_park # cs.requeue_park => Among(k - 1, PARK)
            /\ park_event' # park_event => Among(k - 1, PARK)

\* C18: when the dispatch reaches a completion whose tag is odd and neither TIMER
\* nor WAKE it panics there: nothing after it is dispatched, no Slot is decoded or
\* notified for it, and requeue_timer, timer_pending, requeue_park and the wake
\* event are left as the completions before it made them.
C18_UnknownTagIsFatal == [][C18_Step]_vars

\* the reactor panicked on an unrecognized tag with a user operation's
\* completion behind it in the queue, which stays undispatched
C18_Witness ==
    /\ panicked
    /\ Len(cq) = 1 /\ cq[1].user_data = IntoUserData(1)
    /\ ~IsSome(slots[1].outcome)

(***************************************************************************)
(* active_wait counts the requests in the ring (checked under EchoSpec).   *)
(***************************************************************************)
RECURSIVE SumInflight(_)
SumInflight(T) ==
    IF T = {} THEN 0
    ELSE LET t == CHOOSE x \in T : TRUE
         IN  inflight[t] + SumInflight(T \ {t})

\* the requests with a non-zero tag that were queued and whose completion has
\* not been dispatched
Outstanding ==
    Len(sq) + SumInflight(Tags)
        + Cardinality({k \in 1..Len(cq) : cq[k].user_data # 0})

\* the completions with a non-zero tag consumed in this step
NumConsumedTagged ==
    Cardinality({k \in 1..NumConsumed : cq[k].user_data # 0})

C20_State ==
    /\ cs.active_wait = Outstanding
    /\ cs.active_wait >= 0

C20_Step ==
    /\ Len(sq') = Len(sq) + 1 => cs'.active_wait = cs.active_wait + 1
    /\ (turn'.queue_failed /\ ~turn.queue_failed) =>
          cs'.active_wait = cs.active_wait /\ sq' = sq
    /\ (\E i \in Ops : ReadIssued(i) /\ SubmissionFails) =>
          cs'.active_wait = cs.active_wait /\ sq' = sq
    /\ NumConsumed > 0 => cs'.active_wait = cs.active_wait - NumConsumedTagged

\* C20: active_wait equals the number of requests with a non-zero tag that were
\* queued and whose completion has not been dispatched; queueing a request adds
\* one, a queue_* call refused by a full submission queue adds nothing, the
\* dispatch subtracts one per completion with a non-zero tag and nothing for
\* tag 0, and the count never goes below zero.
C20_ActiveWaitAccounting == []C20_State /\ [][C20_Step]_vars

\* a turn has begun by dispatching a tag-0 completion only: the read in flight is
\* still counted, no Slot has an outcome and no watch was ever queued
C20_Witness ==
    /\ pc = "pending" /\ turn.drained /\ cq = <<>>
    /\ inflight[IntoUserData(1)] = 1 /\ cs.active_wait = 1
    /\ ~IsSome(slots[1].outcome)
    /\ cs.requeue_timer /\ ~cs.timer_pending /\ cs.requeue_park
    /\ timerfd = "Disarmed"

(***************************************************************************)
(* Where a full submission queue is reported (checked under SubmitSpec).   *)
(***************************************************************************)
\* C14: a submission-queue-full condition is raised synchronously by the call
\* that issues the operation and never comes out of the returned future or
\* stream: no future holds it and no poll returns it.
C14_FullRaisedSynchronously ==
    \A i \in Ops :
        /\ futures[i].e # SqFullMapErr
        /\ calls[i].ret.err # SqFullMapErr

\* operation i enters the model in this step as a call to async_write
WriteIssued(i) == ~Issued(i) /\ Issued(i)' /\ futures'[i].kind \in {"write", "none"}
\* the submission queue has no room (and the reactor is there)
QueueFull == alive /\ Len(sq) >= SqEntries
NothingQueued == sq' = sq /\ cs'.active_wait = cs.active_wait /\ cq' = cq

C14_State ==
    \A i \in Ops :
        /\ calls[i].sync.err = SqFullMapErr => futures[i] = NoFuture
        /\ calls[i].ret.err = SqFullMapErr =>
              \/ /\ futures[i].kind = "read" /\ futures[i].state = "Closed"
                 /\ ~IsSome(calls[i].reported)
                 /\ calls[i].ret = RetErr3(SqFullMapErr, BufOf(i), FileOf(i))
              \/ /\ futures[i].kind = "poll" /\ ~futures[i].active
                 /\ calls[i].ret = RetErr1(SqFullMapErr)
                 /\ ~IsSome(slots[i].outcome)

C14_Step ==
    \A i \in Ops :
        /\ (WriteIssued(i) /\ QueueFull) =>
              /\ calls'[i].sync = RetErr1(SqFullMapErr)
              /\ futures'[i] = NoFuture
              /\ NothingQueued
        /\ (ReadIssued(i) /\ QueueFull) =>
              /\ calls'[i].sync = RetFuture
              /\ futures'[i] = InitFailed(SqFullMapErr, BufOf(i), FileOf(i))
              /\ NothingQueued
        /\ (PollStep(i) /\ futures[i].state = "InitFailed"
                /\ futures[i].e = SqFullMapErr) =>
              /\ calls'[i].ret = RetErr3(SqFullMapErr, BufOf(i), FileOf(i))
              /\ NothingQueued
        /\ (StreamPollStep(i) /\ ~futures[i].active /\ QueueFull) =>
              /\ calls'[i].ret = RetErr1(SqFullMapErr)
              /\ ~futures'[i].active
              /\ NothingQueued

\* C14 as amended: a full submission queue is reported by the call that attempted
\* the submission or by the first poll of the future that call returned, and
\* never by a completion: async_write returns Err synchronously and no future;
\* async_read returns a future that holds the error with the buffer and the file
\* and resolves to them on its first poll; the poll of an inactive AsyncPoll,
\* which does the submitting, returns the error and leaves the stream inactive.
\* In each case nothing is queued and active_wait is unchanged.
C14_FullReportedAtSubmission == []C14_State /\ [][C14_Step]_vars

\* the poll of an AsyncPoll stream found the submission queue full
C14_Witness ==
    \E i \in Ops :
        /\ futures[i].kind = "poll" /\ ~futures[i].active
        /\ calls[i].ret = RetErr1(SqFullMapErr)
        /\ Len(sq) = SqEntries

====
